---- MODULE Spec2Model ----
(***************************************************************************)
(* Contractual availability engine of Dispo/contract_calculator.py:        *)
(* AvailabilityTimeline.status_at, IntervalCollection.covers and           *)
(* ContractCalculator.calculate_monthly, as a state machine that walks the *)
(* reporting period one 10-minute step per transition.                     *)
(*                                                                         *)
(* Time is counted in half minutes, the resolution of the checkpoints      *)
(* (step_start + i minutes + 30 seconds).  ratio_sum (T_sum) is kept as an *)
(* exact numerator over Den = total_pdc * CheckpointCount; the two-decimal *)
(* figures of a row are kept as integer hundredths.                        *)
(***************************************************************************)
EXTENDS Integers, Sequences, FiniteSets, TLC

VARIABLES
    equipment_timelines,  \* dict role name -> timeline (a role may have no entry)
    pdc_timelines,        \* list of charge-point timelines
    exclusion_intervals,  \* list of <<start, end>> waiver ranges
    pc,                   \* "idle", "loop", "done": position in calculate_monthly
    start,                \* localized period start
    end,                  \* localized period end
    cursor,               \* loop cursor
    aggregates,           \* month_key -> [T2, T3, T_sum], created lazily
    branch,               \* exit taken by the last loop iteration
    warnings,             \* list of warnings of the current call
    result,               \* rows returned by the current call
    prev,                 \* window and rows of the previous completed call
    probe                 \* a direct call of status_at, covers or build_timeline

vars == <<equipment_timelines, pdc_timelines, exclusion_intervals, pc, start, end,
          cursor, aggregates, branch, warnings, result, prev, probe>>

inputs == <<equipment_timelines, pdc_timelines, exclusion_intervals>>

-----------------------------------------------------------------------------
(* Program constants *)

StepMinutes == 10
UnitsPerMinute == 2
CheckpointCount == 10
PdcFloor == 6
BlockThreshold == 3
BatteryThreshold == 2

StepDuration == StepMinutes * UnitsPerMinute
CheckpointOffset == UnitsPerMinute \div 2

(* Bounds of the model *)

StepsPerMonth == 2
NumMonths == 3
MaxPdc == 7

HalfStep == StepDuration \div 2
MonthLen == StepsPerMonth * StepDuration
Horizon == NumMonths * MonthLen

\* a 30-day calendar month
ThirtyDays == 30 * 24 * 60 * UnitsPerMinute

NaT == 0 - 1

-----------------------------------------------------------------------------
(* Helpers *)

RECURSIVE SumSeq(_)
SumSeq(s) == IF s = <<>> THEN 0 ELSE Head(s) + SumSeq(Tail(s))

Max(a, b) == IF a >= b THEN a ELSE b

\* round(x, 2) on the value n/d, as integer hundredths when n is scaled by 100:
\* nearest integer, ties to even.
RoundHalfEven(n, d) ==
    LET q == n \div d
        r == n % d
    IN  IF 2 * r < d THEN q
        ELSE IF 2 * r > d THEN q + 1
        ELSE IF q % 2 = 0 THEN q ELSE q + 1

MonthKeyOfStepEnd(t) == ((t + StepDuration) \div MonthLen) * MonthLen

\* step_start.to_period("M").to_timestamp(): the start of the calendar month.
\* The calendar has NumMonths months of MonthLen up to Horizon, then one month
\* of 30 days, then months of MonthLen again.
MonthKey(t) ==
    IF t < Horizon THEN (t \div MonthLen) * MonthLen
    ELSE IF t < Horizon + ThirtyDays THEN Horizon
    ELSE Horizon + ThirtyDays + ((t - Horizon - ThirtyDays) \div MonthLen) * MonthLen

-----------------------------------------------------------------------------
(* AvailabilityTimeline *)

Starts(tl) == [i \in 1..Len(tl) |-> tl[i][1]]

\* bisect.bisect_right(a, x): binary search, 0-based insertion point
RECURSIVE BisectLoop(_, _, _, _)
BisectLoop(a, x, lo, hi) ==
    IF lo < hi
    THEN LET mid == (lo + hi) \div 2
         IN  IF x < a[mid + 1]
             THEN BisectLoop(a, x, lo, mid)
             ELSE BisectLoop(a, x, mid + 1, hi)
    ELSE lo

\* bisect_left: the insertion point before equal elements
RECURSIVE BisectLeftLoop(_, _, _, _)
BisectLeftLoop(a, x, lo, hi) ==
    IF lo < hi
    THEN LET mid == (lo + hi) \div 2
         IN  IF a[mid + 1] < x
             THEN BisectLeftLoop(a, x, mid + 1, hi)
             ELSE BisectLeftLoop(a, x, lo, mid)
    ELSE lo

bisect_left(a, x) == BisectLeftLoop(a, x, 0, Len(a))

bisect_right(a, x) == BisectLoop(a, x, 0, Len(a))

NoStatus == [available |-> FALSE, is_excluded |-> FALSE, has_data |-> FALSE]

status_at(tl, ts) ==
    IF tl = <<>> THEN NoStatus
    ELSE LET idx == bisect_right(Starts(tl), ts) - 1
         IN  IF idx < 0 THEN NoStatus
             ELSE LET iv == tl[idx + 1]
                  IN  IF iv[1] <= ts /\ ts < iv[2]
                      THEN [available |-> iv[3] = 1,
                            is_excluded |-> iv[4] = 1,
                            has_data |-> TRUE]
                      ELSE NoStatus

has_data(tl) == tl # <<>>

(* IntervalCollection *)

\* the for loop of covers, returning at the first containing range
RECURSIVE CoversFrom(_, _, _, _)
CoversFrom(coll, s, e, i) ==
    IF i > Len(coll) THEN FALSE
    ELSE IF coll[i][1] <= s /\ coll[i][2] >= e THEN TRUE
    ELSE CoversFrom(coll, s, e, i + 1)

coversOverlap(coll, s, e) ==
    \E i \in 1..Len(coll) : coll[i][1] < e /\ coll[i][2] > s

covers(coll, s, e) == CoversFrom(coll, s, e, 1)

-----------------------------------------------------------------------------
(* localize_to_paris *)

\* A datetime is [t, tz]: tz = "aware" carries an instant and is converted
\* without changing it; tz = "naive" carries a Paris wall-clock reading, which
\* is not-a-time when it falls in the repeated hour of a clock change
\* (ambiguous = "NaT").
AmbiguousWalls == {HalfStep}

localize_to_paris(dt) ==
    IF dt.tz = "naive"
    THEN IF dt.t \in AmbiguousWalls THEN NaT ELSE dt.t
    ELSE dt.t

isna(ts) == ts = NaT

-----------------------------------------------------------------------------
(* calculate_monthly: the pieces of one call *)

EmptyTimeline == <<>>

\* equipment_timelines.get(name, AvailabilityTimeline([]))
GetTimeline(eq, name) ==
    IF name \in DOMAIN eq THEN eq[name] ELSE EmptyTimeline

InvalidPeriodStrict(s, e) == isna(s) \/ isna(e) \/ e < s

\* line 119
InvalidPeriod(s, e) == isna(s) \/ isna(e) \/ e <= s

\* line 130: names of the supplied timelines without data
MissingRoles(eq) == {name \in DOMAIN eq : ~has_data(eq[name])}

\* lines 126-132
InitialWarningsRolesOnly(eq, pdc) ==
    IF MissingRoles(eq) # {}
    THEN <<[kind |-> "missing", names |-> MissingRoles(eq)]>>
    ELSE <<>>

InitialWarnings(eq, pdc) ==
    (IF pdc = <<>> THEN <<[kind |-> "no_pdc", names |-> {}]>> ELSE <<>>)
    \o (IF MissingRoles(eq) # {}
        THEN <<[kind |-> "missing", names |-> MissingRoles(eq)]>>
        ELSE <<>>)

\* minute_checkpoints(step_start)[i], i in 0..9
Checkpoint(step_start, i) == step_start + i * UnitsPerMinute + CheckpointOffset

LoopGuardPartial(c, e) == c < e

\* while condition, line 144
LoopGuard(c, e) == c + StepDuration <= e

StepExcludedAfterAc(excl, step_start, step_end) ==
    /\ covers(excl, step_start, step_end)
    /\ status_at(IF "AC" \in DOMAIN equipment_timelines
                 THEN equipment_timelines["AC"] ELSE <<>>,
                 step_start + CheckpointOffset).available

\* line 150
StepExcluded(excl, step_start, step_end) == covers(excl, step_start, step_end)

\* lines 158-163: the AC loop with its break
RECURSIVE AcLoop(_, _, _)
AcLoop(ac, step_start, i) ==
    IF i >= CheckpointCount THEN TRUE
    ELSE LET st == status_at(ac, Checkpoint(step_start, i))
         IN  IF ~st.has_data \/ ~st.available THEN FALSE
             ELSE AcLoop(ac, step_start, i + 1)

AcOkHasDataOnly(eq, step_start) ==
    \A i \in 0..(CheckpointCount - 1) :
        status_at(IF "AC" \in DOMAIN eq THEN eq["AC"] ELSE <<>>,
                  step_start + i * UnitsPerMinute + CheckpointOffset).has_data

AcOkUnlessFlagged(eq, step_start) ==
    \A i \in 0..(CheckpointCount - 1) :
        LET st == status_at(IF "AC" \in DOMAIN eq THEN eq["AC"] ELSE <<>>,
                            step_start + i * UnitsPerMinute + CheckpointOffset)
        IN  st.has_data /\ st.available /\ ~st.is_excluded

\* lines 157-164
AcOk(eq, step_start) == AcLoop(GetTimeline(eq, "AC"), step_start, 0)

BoolInt(b) == IF b THEN 1 ELSE 0

UnavailableCountSilentOnly(dc1, dc2, ts) ==
    (IF ~status_at(dc1, ts).has_data THEN 1 ELSE 0)
    + (IF ~status_at(dc2, ts).has_data THEN 1 ELSE 0)

\* lines 174-176
UnavailableCount(dc1, dc2, ts) ==
    LET s1 == status_at(dc1, ts)
        s2 == status_at(dc2, ts)
    IN  BoolInt(~s1.available \/ ~s1.has_data) + BoolInt(~s2.available \/ ~s2.has_data)

\* lines 170-179: the battery loop with its break
RECURSIVE BatteryLoop(_, _, _, _)
BatteryLoop(dc1, dc2, step_start, i) ==
    IF i >= CheckpointCount THEN TRUE
    ELSE IF UnavailableCount(dc1, dc2, Checkpoint(step_start, i)) >= BatteryThreshold
         THEN FALSE
         ELSE BatteryLoop(dc1, dc2, step_start, i + 1)

BatteriesOk(eq, step_start) ==
    BatteryLoop(GetTimeline(eq, "DC1"), GetTimeline(eq, "DC2"), step_start, 0)

TotalPdcNoFloorCap(pdc) == PdcFloor

\* line 184
TotalPdc(pdc) == Max(Len(pdc), PdcFloor)

\* lines 192-196
RECURSIVE AvailablePdcFrom(_, _, _)
AvailablePdcFrom(pdc, ts, k) ==
    IF k > Len(pdc) THEN 0
    ELSE LET st == status_at(pdc[k], ts)
         IN  BoolInt(st.available /\ st.has_data) + AvailablePdcFrom(pdc, ts, k + 1)

AvailablePdc(pdc, ts) == AvailablePdcFrom(pdc, ts, 1)

StationBlockedAtStrict(total_pdc, available_pdc) ==
    total_pdc - available_pdc > BlockThreshold

StationBlockedAtPresent(total_pdc, available_pdc) ==
    Len(pdc_timelines) - available_pdc >= BlockThreshold

\* line 198
StationBlockedAt(total_pdc, available_pdc) ==
    total_pdc - available_pdc >= BlockThreshold

\* lines 189-201: minute_ratios holds the numerators available_pdc of the
\* ratios available_pdc / total_pdc
RECURSIVE PdcLoop(_, _, _, _)
PdcLoop(pdc, step_start, i, minute_ratios) ==
    IF i >= CheckpointCount
    THEN [station_blocked |-> FALSE, minute_ratios |-> minute_ratios]
    ELSE LET available_pdc == AvailablePdc(pdc, Checkpoint(step_start, i))
         IN  IF StationBlockedAt(TotalPdc(pdc), available_pdc)
             THEN [station_blocked |-> TRUE, minute_ratios |-> minute_ratios]
             ELSE PdcLoop(pdc, step_start, i + 1, Append(minute_ratios, available_pdc))

\* denominator of T_sum: every ratio is a multiple of 1/(total_pdc * 10)
Den(pdc) == TotalPdc(pdc) * CheckpointCount

StepValueNoMean(minute_ratios) == SumSeq(minute_ratios) * CheckpointCount

\* line 207: sum(minute_ratios) / len(minute_ratios), in units of 1/Den
StepValue(minute_ratios) ==
    (SumSeq(minute_ratios) * CheckpointCount) \div Len(minute_ratios)

NewAggregate == [T2 |-> 0, T3 |-> 0, T_sum |-> 0]

\* aggregates[month_key] of the defaultdict
AggOf(agg, m) == IF m \in DOMAIN agg THEN agg[m] ELSE NewAggregate

AggPut(agg, m, v) == [k \in DOMAIN agg \cup {m} |-> IF k = m THEN v ELSE agg[k]]

\* One iteration of the while loop, lines 145-210: the new aggregates and the
\* exit taken.
StepOutcome(eq, pdc, excl, agg, step_start) ==
    LET step_end == step_start + StepDuration
        month_key == MonthKey(step_start)
        counted == [AggOf(agg, month_key) EXCEPT !.T2 = @ + 1]
        agg1 == AggPut(agg, month_key, counted)
    IN  IF StepExcluded(excl, step_start, step_end)
        THEN [aggregates |-> AggPut(agg, month_key, [counted EXCEPT !.T3 = @ + 1]),
              branch |-> "excluded"]
        ELSE IF ~AcOk(eq, step_start)
        THEN [aggregates |-> agg1, branch |-> "ac"]
        ELSE IF ~BatteriesOk(eq, step_start)
        THEN [aggregates |-> agg1, branch |-> "battery"]
        ELSE IF TotalPdc(pdc) = 0
        THEN [aggregates |-> agg1, branch |-> "no_pdc"]
        ELSE LET loop == PdcLoop(pdc, step_start, 0, <<>>)
             IN  IF loop.station_blocked \/ loop.minute_ratios = <<>>
                 THEN [aggregates |-> agg1, branch |-> "pdc"]
                 ELSE [aggregates |->
                          AggPut(agg, month_key,
                                 [counted EXCEPT !.T_sum = @ + StepValue(loop.minute_ratios)]),
                       branch |-> "counted"]

\* lines 219-226: one row; the rounded figures are integer hundredths
\* round(n * 100 / d, 0) to the nearest, ties to even, computed in two stages
\* so that no intermediate product exceeds the integer range
RoundHalfEvenPct(n, d) ==
    LET b == n % d
        q == (n \div d) * 100 + (b * 100) \div d
        r == (b * 100) % d
    IN  IF 2 * r < d THEN q
        ELSE IF 2 * r > d THEN q + 1
        ELSE IF q % 2 = 0 THEN q ELSE q + 1

MonthRow(m, values, den) ==
    [Mois |-> m,
     T2 |-> values.T2,
     T3 |-> values.T3,
     T |-> RoundHalfEven(values.T_sum * 100, den),
     Dispo |-> RoundHalfEvenPct((values.T_sum + values.T3 * den) * 100, values.T2 * den)]

\* sorted(aggregates.items()), months in ascending order
RECURSIVE SortedMonths(_)
SortedMonths(S) ==
    IF S = {} THEN <<>>
    ELSE LET m == CHOOSE x \in S : \A y \in S : x <= y
         IN  <<m>> \o SortedMonths(S \ {m})

\* lines 212-232
BuildRows(agg, den) ==
    LET months == SortedMonths({m \in DOMAIN agg : agg[m].T2 # 0})
    IN  [i \in 1..Len(months) |-> MonthRow(months[i], agg[months[i]], den)]

-----------------------------------------------------------------------------
(* What the injected loaders return, and the periods asked for *)

Roles == {"AC", "DC1", "DC2"}

Good == << <<0, Horizon, 1, 0>> >>

\* available, then unavailable, then silent, then available again
AcVar == << <<0, 3 * HalfStep, 1, 0>>,
            <<3 * HalfStep, 4 * HalfStep, 0, 0>>,
            <<5 * HalfStep, Horizon, 1, 1>> >>

\* down on [2, 6) half steps
DcA == << <<0, 2 * HalfStep, 1, 0>>,
          <<2 * HalfStep, 6 * HalfStep, 0, 1>>,
          <<6 * HalfStep, Horizon, 1, 0>> >>

\* silent on [5, 7) half steps, placeholder status -1 on [7, 9)
DcB == << <<0, 5 * HalfStep, 1, 0>>,
          <<7 * HalfStep, 9 * HalfStep, 0 - 1, 0>>,
          <<9 * HalfStep, Horizon, 1, 0>> >>

RoleTimelines(name) ==
    IF name = "AC" THEN {EmptyTimeline, Good, AcVar}
    ELSE IF name = "DC1" THEN {EmptyTimeline, Good, DcA}
    ELSE {EmptyTimeline, Good, DcB}

EquipmentInputs ==
    UNION { {eq \in [R -> {EmptyTimeline, Good, AcVar, DcA, DcB}] :
                \A name \in R : eq[name] \in RoleTimelines(name)} : R \in SUBSET Roles }

\* the i-th degraded charge point goes down at half step i and is back at 7
PdcFlaky(i) == << <<0, i * HalfStep, 1, 0>>,
                  <<i * HalfStep, 7 * HalfStep, 0, 0>>,
                  <<7 * HalfStep, Horizon, 1, 1>> >>

MkPdc(n, d) == [k \in 1..n |-> IF k <= d THEN PdcFlaky(k) ELSE Good]

\* Below BlockThreshold + 1 charge points a few lists, from there to MaxPdc every
\* number of degraded ones
PdcInputs ==
    {MkPdc(0, 0), MkPdc(1, 0), MkPdc(2, 0), MkPdc(2, 2), MkPdc(3, 1)}
    \cup {MkPdc(n, d) : n \in (BlockThreshold + 1)..MaxPdc, d \in 0..BlockThreshold}

ExclusionInputs ==
    { <<>>,
      << <<0, 3 * HalfStep>> >>,
      << <<4 * HalfStep, 5 * HalfStep>>, <<5 * HalfStep, 8 * HalfStep>> >> }

StartTimes == {0, HalfStep, MonthLen}
EndTimes == {0, HalfStep, MonthLen, MonthLen + HalfStep, 2 * MonthLen, Horizon}
Zones == {"naive", "aware"}

\* no direct call is made
NoProbe == [fn |-> "none"]

NoPrev == [start |-> NaT, end |-> NaT, result |-> <<>>, aggregates |-> <<>>]

-----------------------------------------------------------------------------
(* The state machine *)

\* the battery pairs under which the charge points are varied in full:
\* <<DC1, DC2>>, a role without entry written as "absent"
CoreBatteries ==
    { [DC1 |-> Good, DC2 |-> Good],
      [DC1 |-> DcA, DC2 |-> DcB],
      [DC1 |-> DcA],
      [DC1 |-> EmptyTimeline, DC2 |-> DcB] }

CoreEquipment ==
    { eq \in EquipmentInputs :
        /\ "AC" \in DOMAIN eq
        /\ has_data(eq["AC"])
        /\ [name \in DOMAIN eq \ {"AC"} |-> eq[name]] \in CoreBatteries }

\* Outside CoreEquipment the charge points are drawn from two lists only.
InputsChosen(eq, pdc) ==
    eq \notin CoreEquipment => pdc \in {MkPdc(0, 0), MkPdc(PdcFloor, 0)}

Init ==
    /\ equipment_timelines \in EquipmentInputs
    /\ pdc_timelines \in PdcInputs
    /\ exclusion_intervals \in ExclusionInputs
    /\ InputsChosen(equipment_timelines, pdc_timelines)
    /\ pc = "idle"
    /\ start = NaT
    /\ end = NaT
    /\ cursor = NaT
    /\ aggregates = <<>>
    /\ branch = "none"
    /\ warnings = <<>>
    /\ result = <<>>
    /\ prev = NoPrev
    /\ probe = NoProbe

\* lines 116-139: entry of calculate_monthly up to the loop
Enter(start_dt, end_dt) ==
    LET s == localize_to_paris(start_dt)
        e == localize_to_paris(end_dt)
    IN  /\ start' = s
        /\ end' = e
        /\ result' = <<>>
        /\ branch' = "none"
        /\ aggregates' = <<>>
        /\ IF InvalidPeriod(s, e)
           THEN /\ pc' = "done"
                /\ warnings' = <<[kind |-> "invalid", names |-> {}]>>
                /\ cursor' = NaT
           ELSE /\ pc' = "loop"
                /\ warnings' = InitialWarnings(equipment_timelines, pdc_timelines)
                /\ cursor' = s
        /\ UNCHANGED <<inputs, probe>>

Call ==
    /\ pc = "idle"
    /\ \E ts \in StartTimes, te \in EndTimes, zs \in Zones, ze \in Zones :
          Enter([t |-> ts, tz |-> zs], [t |-> te, tz |-> ze])
    /\ UNCHANGED prev

\* lines 144-210: one iteration of the while loop
LoopStep ==
    /\ pc = "loop"
    /\ LoopGuard(cursor, end)
    /\ LET out == StepOutcome(equipment_timelines, pdc_timelines, exclusion_intervals,
                              aggregates, cursor)
       IN  /\ aggregates' = out.aggregates
           /\ branch' = out.branch
    /\ cursor' = cursor + StepDuration
    /\ UNCHANGED <<inputs, pc, start, end, warnings, result, prev, probe>>

\* lines 212-234: the loop is over, the rows are built and returned
Finalize ==
    /\ pc = "loop"
    /\ ~LoopGuard(cursor, end)
    /\ result' = BuildRows(aggregates, Den(pdc_timelines))
    /\ pc' = "done"
    /\ UNCHANGED <<inputs, start, end, cursor, aggregates, branch, warnings, prev, probe>>

Next == Call \/ LoopStep \/ Finalize

Spec == Init /\ [][Next]_vars

(* A caller that asks again, for the same site, with the window extended by *)
(* whole calendar months before its start and after its end                *)

\* a second calculate_monthly call; the first call's window and outcome are
\* kept for comparison
Extend ==
    /\ pc = "done"
    /\ prev = NoPrev
    /\ ~InvalidPeriod(start, end)
    /\ \E before \in 0..NumMonths, after \in 0..NumMonths :
          /\ before + after > 0
          /\ start - before * MonthLen >= 0
          /\ end + after * MonthLen <= Horizon
          /\ Enter([t |-> start - before * MonthLen, tz |-> "aware"],
                   [t |-> end + after * MonthLen, tz |-> "aware"])
    /\ prev' = [start |-> start, end |-> end, result |-> result,
                aggregates |-> aggregates]

InitMono ==
    /\ Init
    /\ equipment_timelines \in CoreEquipment
    /\ pdc_timelines \in {MkPdc(PdcFloor, 1), MkPdc(MaxPdc, 2)}

NextMono == Call \/ LoopStep \/ Finalize \/ Extend

SpecMono == InitMono /\ [][NextMono]_vars

-----------------------------------------------------------------------------
(* Vocabulary of the properties *)

Checkpoints == 0..(CheckpointCount - 1)

\* the loop is about to process the step [cursor, cursor + StepDuration)
Stepping == pc = "loop" /\ cursor + StepDuration <= end

\* accumulators of month m, zero when the month has none yet
Acc(agg, m) == IF m \in DOMAIN agg THEN agg[m] ELSE [T2 |-> 0, T3 |-> 0, T_sum |-> 0]

ContractTotal ==
    IF Len(pdc_timelines) > PdcFloor THEN Len(pdc_timelines) ELSE PdcFloor

\* one unit of T_sum is 1 / RatioUnit
RatioUnit == ContractTotal * CheckpointCount

\* some single exclusion range contains the step starting at s
InOneExclusion(s) ==
    \E i \in 1..Len(exclusion_intervals) :
        /\ exclusion_intervals[i][1] <= s
        /\ s + StepDuration <= exclusion_intervals[i][2]

Status(name, s, c) ==
    status_at(IF name \in DOMAIN equipment_timelines
              THEN equipment_timelines[name] ELSE <<>>,
              s + c * UnitsPerMinute + CheckpointOffset)

Up(name, s, c) == Status(name, s, c).has_data /\ Status(name, s, c).available

AcPasses(s) == \A c \in Checkpoints : Up("AC", s, c)

BatteriesPass(s) == \A c \in Checkpoints : Up("DC1", s, c) \/ Up("DC2", s, c)

PdcUp(k, s, c) ==
    LET st == status_at(pdc_timelines[k], s + c * UnitsPerMinute + CheckpointOffset)
    IN  st.has_data /\ st.available

AvailableAt(s, c) == Cardinality({k \in 1..Len(pdc_timelines) : PdcUp(k, s, c)})

RECURSIVE SumAvailable(_, _)
SumAvailable(s, c) ==
    IF c = CheckpointCount THEN 0 ELSE AvailableAt(s, c) + SumAvailable(s, c + 1)

\* the step that has just been processed
LastStep == cursor - StepDuration
Stepped == pc = "loop" /\ cursor # NaT /\ cursor > start

-----------------------------------------------------------------------------
(* C1: in every state each month's accumulators satisfy                    *)
(* 0 <= ratio_sum + steps_excluded <= steps_total, and every emitted row   *)
(* has availability_pct in [0, 100], equal to                              *)
(* (ratio_sum + steps_excluded) / steps_total * 100 rounded to 2 decimals  *)
(* (within half a hundredth of the exact quotient).                        *)
AvailabilityInRange ==
    /\ \A m \in DOMAIN aggregates :
          /\ aggregates[m].T_sum >= 0
          /\ aggregates[m].T3 >= 0
          /\ aggregates[m].T_sum + aggregates[m].T3 * RatioUnit
                <= aggregates[m].T2 * RatioUnit
    /\ pc = "done" =>
          \A i \in 1..Len(result) :
              LET row == result[i]
                  acc == Acc(aggregates, row.Mois)
                  exact == (acc.T_sum + acc.T3 * RatioUnit) * 10000
                  scaled == row.Dispo * acc.T2 * RatioUnit
              IN  /\ row.Dispo >= 0
                  /\ row.Dispo <= 10000
                  /\ acc.T2 > 0
                  /\ 2 * (scaled - exact) <= acc.T2 * RatioUnit
                  /\ 2 * (exact - scaled) <= acc.T2 * RatioUnit

\* a returned row mixing excluded, counted and skipped steps, with a
\* percentage that had to be rounded
AvailabilityInRangeWitness ==
    /\ pc = "done"
    /\ \E i \in 1..Len(result) :
          LET acc == Acc(aggregates, result[i].Mois)
          IN  /\ acc.T3 > 0
              /\ acc.T_sum > 0
              /\ result[i].Dispo < 10000
              /\ ((acc.T_sum + acc.T3 * RatioUnit) * 10000) % (acc.T2 * RatioUnit) # 0

(* C2: a step fully contained in a single exclusion range increments that  *)
(* month's steps_excluded by exactly 1 and adds nothing to ratio_sum,      *)
(* whatever the AC, battery and charge-point timelines report.             *)
ExcludedStepCounted ==
    [][(Stepping /\ InOneExclusion(cursor)) =>
         LET m == MonthKey(cursor)
         IN  /\ Acc(aggregates', m).T3 = Acc(aggregates, m).T3 + 1
             /\ Acc(aggregates', m).T_sum = Acc(aggregates, m).T_sum
             /\ branch' = "excluded"]_vars

\* an excluded step has been processed although the AC gate would have failed
\* it, and one although every gate would have let it through
ExcludedStepCountedWitness ==
    /\ Stepped
    /\ InOneExclusion(LastStep)
    /\ branch = "excluded"
    /\ Acc(aggregates, MonthKey(LastStep)).T3 > 0
    /\ \/ ~AcPasses(LastStep)
       \/ /\ AcPasses(LastStep)
          /\ BatteriesPass(LastStep)
          /\ SumAvailable(LastStep, 0) > 0

(* C3: a non-excluded step that passes the AC and battery gates adds       *)
(* nothing to ratio_sum if total - available(c) >= 3 at some checkpoint,   *)
(* and otherwise adds the mean over the 10 checkpoints of                  *)
(* available(c) / total, with total = max(number of charge points, 6).     *)
ChargePointGate ==
    [][(Stepping /\ ~InOneExclusion(cursor) /\ AcPasses(cursor) /\ BatteriesPass(cursor)) =>
         LET m == MonthKey(cursor)
             added == Acc(aggregates', m).T_sum - Acc(aggregates, m).T_sum
         IN  IF \E c \in Checkpoints : ContractTotal - AvailableAt(cursor, c) >= BlockThreshold
             THEN added = 0 /\ branch' = "pdc"
             ELSE added = SumAvailable(cursor, 0) /\ branch' = "counted"]_vars

\* a counted step whose ratio changed between checkpoints
ChargePointGateWitness ==
    /\ Stepped
    /\ branch = "counted"
    /\ \E c, d \in Checkpoints : AvailableAt(LastStep, c) # AvailableAt(LastStep, d)
    /\ Acc(aggregates, MonthKey(LastStep)).T_sum >= SumAvailable(LastStep, 0)

\* a step blocked at a late checkpoint only
ChargePointGateBlockedWitness ==
    /\ Stepped
    /\ branch = "pdc"
    /\ ContractTotal - AvailableAt(LastStep, 0) < BlockThreshold

(* C4: with exactly 2 charge-point timelines, both available and reporting *)
(* at every checkpoint of a non-excluded step that passes the AC and       *)
(* battery gates, the step adds 2/6 to ratio_sum.                          *)
TwoPointsCountTwoSixths ==
    [][(/\ Stepping
        /\ ~InOneExclusion(cursor)
        /\ AcPasses(cursor)
        /\ BatteriesPass(cursor)
        /\ Len(pdc_timelines) = 2
        /\ \A c \in Checkpoints : AvailableAt(cursor, c) = 2) =>
         LET m == MonthKey(cursor)
             added == Acc(aggregates', m).T_sum - Acc(aggregates, m).T_sum
         IN  added * PdcFloor = 2 * RatioUnit]_vars

BatteryGateSkipWitness ==
    /\ Stepped
    /\ branch = "battery"
    /\ Up("DC2", LastStep, 0)

(* C6: a non-excluded step with a checkpoint where the AC timeline has no  *)
(* data or is unavailable increments steps_total only: nothing is added to *)
(* ratio_sum or to steps_excluded, of this month or of any other.          *)
AcGate ==
    [][(Stepping /\ ~InOneExclusion(cursor) /\ ~AcPasses(cursor)) =>
         LET m == MonthKey(cursor)
         IN  /\ branch' = "ac"
             /\ Acc(aggregates', m).T2 = Acc(aggregates, m).T2 + 1
             /\ Acc(aggregates', m).T3 = Acc(aggregates, m).T3
             /\ Acc(aggregates', m).T_sum = Acc(aggregates, m).T_sum
             /\ \A k \in DOMAIN aggregates' \ {m} :
                   k \in DOMAIN aggregates /\ aggregates'[k] = aggregates[k]]_vars

\* the AC failed at a late checkpoint only, with data but unavailable, on a
\* step the other gates would have counted
AcGateWitness ==
    /\ Stepped
    /\ branch = "ac"
    /\ Up("AC", LastStep, 0)
    /\ \E c \in Checkpoints : Status("AC", LastStep, c).has_data
                                /\ ~Status("AC", LastStep, c).available
    /\ BatteriesPass(LastStep)
    /\ \A c \in Checkpoints : ContractTotal - AvailableAt(LastStep, c) < BlockThreshold

(* C7: the cursor advances from period_start in 10-minute steps and a step *)
(* is processed only if it ends at or before period_end: the steps_total   *)
(* of the emitted months add up to floor((period_end - period_start) / 10  *)
(* minutes), and each step is counted once, in the month of its start.     *)
StepsOf(n, m) == Cardinality({k \in 0..(n - 1) : MonthKey(start + k * StepDuration) = m})

RECURSIVE SumT2(_)
SumT2(rows) == IF rows = <<>> THEN 0 ELSE Head(rows).T2 + SumT2(Tail(rows))

SteppingCount ==
    (pc # "idle" /\ cursor # NaT) =>
        LET n == (cursor - start) \div StepDuration
        IN  /\ cursor = start + n * StepDuration
            /\ cursor <= end
            /\ \A m \in DOMAIN aggregates : aggregates[m].T2 = StepsOf(n, m)
            /\ \A k \in 0..(n - 1) : MonthKey(start + k * StepDuration) \in DOMAIN aggregates
            /\ pc = "done" =>
                  /\ n = (end - start) \div StepDuration
                  /\ SumT2(result) = n
                  /\ \A i \in 1..Len(result) : result[i].T2 = StepsOf(n, result[i].Mois)
                  /\ \A m \in DOMAIN aggregates : \E i \in 1..Len(result) : result[i].Mois = m

\* a returned table of several months, for a period whose last partial step
\* was dropped and whose steps straddle the month boundaries
SteppingCountWitness ==
    /\ pc = "done"
    /\ cursor # NaT
    /\ Len(result) >= 2
    /\ (end - start) % StepDuration # 0
    /\ start % StepDuration # 0

(* C8: when period_end <= period_start after normalization, or a bound is  *)
(* not-a-time, the call returns an empty table with a non-empty warnings   *)
(* list and processes no step.                                             *)
InvalidPeriodRejected ==
    (pc # "idle" /\ (start = NaT \/ end = NaT \/ end <= start)) =>
        /\ pc = "done"
        /\ result = <<>>
        /\ warnings # <<>>
        /\ aggregates = <<>>
        /\ cursor = NaT
        /\ branch = "none"

\* an empty period (end = start) was rejected
InvalidPeriodRejectedWitness ==
    /\ pc = "done"
    /\ start # NaT
    /\ end = start
    /\ result = <<>>
    /\ Len(warnings) = 1

\* a period with a not-a-time bound was rejected
InvalidPeriodNaTWitness ==
    /\ pc = "done"
    /\ start = NaT
    /\ end # NaT
    /\ Len(warnings) = 1

(* C9: for each of the roles AC, DC1, DC2, if the role has no entry in the *)
(* supplied equipment timelines or its timeline has no intervals, the      *)
(* warnings of a call on a valid period contain a warning naming the role. *)
MissingRolesNamed ==
    (pc # "idle" /\ start # NaT /\ end # NaT /\ end > start) =>
        \A name \in Roles :
            (name \notin DOMAIN equipment_timelines \/ equipment_timelines[name] = <<>>) =>
                \E i \in 1..Len(warnings) :
                    warnings[i].kind = "missing" /\ name \in warnings[i].names

(* C10 as stated: after the window has been extended by whole calendar    *)
(* months, every month emitted for the original window has the same        *)
(* steps_total, steps_excluded, ratio_sum and availability_pct.            *)
SameMonths ==
    /\ \A i \in 1..Len(prev.result) :
          \E j \in 1..Len(result) : result[j] = prev.result[i]
    /\ \A m \in DOMAIN prev.aggregates :
          m \in DOMAIN aggregates /\ aggregates[m] = prev.aggregates[m]

ExtensionKeepsMonths ==
    (pc = "done" /\ prev # NoPrev) => SameMonths

(* C10, amended: the same, for an original window that starts and ends on  *)
(* calendar-month boundaries (months being whole numbers of 10-minute      *)
(* steps).                                                                 *)
WholeMonths(p) == p.start % MonthLen = 0 /\ p.end % MonthLen = 0

ExtensionKeepsWholeMonths ==
    (pc = "done" /\ prev # NoPrev /\ WholeMonths(prev)) => SameMonths

\* a whole-month window with counted and excluded steps was extended and
\* recomputed, and the new table has more months
ExtensionKeepsWholeMonthsWitness ==
    /\ pc = "done"
    /\ prev # NoPrev
    /\ WholeMonths(prev)
    /\ Len(result) > Len(prev.result)
    /\ \E i \in 1..Len(prev.result) : prev.result[i].T > 0 /\ prev.result[i].T3 > 0
    /\ start < prev.start

-----------------------------------------------------------------------------
(* Direct calls of status_at: a timeline sorted by start, overlaps allowed, *)
(* and an instant                                                          *)

MaxIntervals == 3
MaxT == 3

Payloads == { <<1, 0>>, <<0, 1>> }

LookupIntervals ==
    { <<s, e, p[1], p[2]>> : s \in 0..MaxT, e \in 0..MaxT, p \in Payloads }

SortedTimelines ==
    UNION { { tl \in [1..n -> {iv \in LookupIntervals : iv[1] < iv[2]}] :
                \A i \in 1..(n - 1) : tl[i][1] <= tl[i + 1][1] } : n \in 0..MaxIntervals }

\* the calculator is not used
EngineOff ==
    /\ equipment_timelines = <<>>
    /\ pdc_timelines = <<>>
    /\ exclusion_intervals = <<>>
    /\ pc = "idle"
    /\ start = NaT
    /\ end = NaT
    /\ cursor = NaT
    /\ aggregates = <<>>
    /\ branch = "none"
    /\ warnings = <<>>
    /\ result = <<>>
    /\ prev = NoPrev

engine == <<equipment_timelines, pdc_timelines, exclusion_intervals, pc, start, end,
            cursor, aggregates, branch, warnings, result, prev>>

InitStatusAt ==
    /\ EngineOff
    /\ \E tl \in SortedTimelines, ts \in 0..(MaxT + 1) :
          probe = [fn |-> "status_at", tl |-> tl, ts |-> ts, done |-> FALSE,
                   out |-> NoStatus]

StatusAtCall ==
    /\ probe.fn = "status_at"
    /\ ~probe.done
    /\ probe' = [probe EXCEPT !.done = TRUE, !.out = status_at(probe.tl, probe.ts)]
    /\ UNCHANGED engine

NextStatusAt == StatusAtCall

SpecStatusAt == InitStatusAt /\ [][NextStatusAt]_vars

(* C11: on a timeline sorted by start, status_at(ts) looks at the interval *)
(* I with the rightmost start <= ts (the last one in sequence order): with *)
(* no such I, or ts >= I.end, it answers (false, false, has_data = false), *)
(* otherwise (I.status = 1, I.excluded_flag = 1, true).  So before the     *)
(* first start and from the largest end on it answers has_data = false,    *)
(* and an earlier interval that still contains ts is not consulted.        *)
StatusAtRightmostStart ==
    (probe.fn = "status_at" /\ probe.done) =>
        LET tl == probe.tl
            ts == probe.ts
            S == {i \in 1..Len(tl) : tl[i][1] <= ts}
            nothing == [available |-> FALSE, is_excluded |-> FALSE, has_data |-> FALSE]
        IN  /\ IF S = {} THEN probe.out = nothing
               ELSE LET i == CHOOSE k \in S : \A j \in S : j <= k
                    IN  IF ts >= tl[i][2] THEN probe.out = nothing
                        ELSE probe.out = [available |-> tl[i][3] = 1,
                                          is_excluded |-> tl[i][4] = 1,
                                          has_data |-> TRUE]
            /\ (\A i \in 1..Len(tl) : ts < tl[i][1]) => ~probe.out.has_data
            /\ (\A i \in 1..Len(tl) : ts >= tl[i][2]) => ~probe.out.has_data

\* an earlier interval contains ts, the one with the rightmost start has ended
\* before ts: no data is answered
StatusAtRightmostStartWitness ==
    /\ probe.fn = "status_at"
    /\ probe.done
    /\ \E i \in 1..Len(probe.tl) : probe.tl[i][1] <= probe.ts /\ probe.ts < probe.tl[i][2]
    /\ ~probe.out.has_data

\* two intervals start at the same instant and the later one in the sequence
\* answers
StatusAtTieWitness ==
    /\ probe.fn = "status_at"
    /\ probe.done
    /\ Len(probe.tl) >= 2
    /\ probe.tl[1][1] = probe.tl[2][1]
    /\ probe.tl[1][3] # probe.tl[2][3]
    /\ probe.ts = probe.tl[2][1]
    /\ Len(probe.tl) = 2
    /\ probe.out.has_data
    /\ probe.out.available = (probe.tl[2][3] = 1)

-----------------------------------------------------------------------------
(* Direct calls of covers: a list of ranges in any order, and a queried range *)

Ranges == { <<s, e>> : s \in 0..MaxT, e \in 0..MaxT }

RangeLists ==
    UNION { [1..n -> {r \in Ranges : r[1] < r[2]}] : n \in 0..MaxIntervals }

InitCovers ==
    /\ EngineOff
    /\ \E coll \in RangeLists, q \in {r \in Ranges : r[1] < r[2]} :
          probe = [fn |-> "covers", coll |-> coll, s |-> q[1], e |-> q[2],
                   done |-> FALSE, out |-> FALSE]

CoversCall ==
    /\ probe.fn = "covers"
    /\ ~probe.done
    /\ probe' = [probe EXCEPT !.done = TRUE, !.out = covers(probe.coll, probe.s, probe.e)]
    /\ UNCHANGED engine

NextCovers == CoversCall

SpecCovers == InitCovers /\ [][NextCovers]_vars

(* C12: covers(start, end) is true if and only if one single stored range  *)
(* (s, e) has s <= start and e >= end; a range only partially overlapped,  *)
(* or covered only by the union of several stored ranges, is not covered.  *)
CoversSingleRange ==
    (probe.fn = "covers" /\ probe.done) =>
        (probe.out <=>
            \E i \in 1..Len(probe.coll) :
                probe.coll[i][1] <= probe.s /\ probe.e <= probe.coll[i][2])

\* two adjacent ranges meet inside the queried range and cover it together:
\* the answer is false
CoversSingleRangeWitness ==
    /\ probe.fn = "covers"
    /\ probe.done
    /\ ~probe.out
    /\ \E i, j \in 1..Len(probe.coll) :
          /\ probe.coll[i][1] <= probe.s
          /\ probe.s < probe.coll[i][2]
          /\ probe.coll[i][2] = probe.coll[j][1]
          /\ probe.coll[j][1] < probe.e
          /\ probe.e <= probe.coll[j][2]

\* the containing range is the last of the list
CoversLastRangeWitness ==
    /\ probe.fn = "covers"
    /\ probe.done
    /\ probe.out
    /\ Len(probe.coll) = MaxIntervals
    /\ \A i \in 1..(MaxIntervals - 1) :
          ~(probe.coll[i][1] <= probe.s /\ probe.e <= probe.coll[i][2])

-----------------------------------------------------------------------------
(* build_timeline *)

\* max(a, b) and min(a, b) of Python on timestamps: a is kept unless b > a
\* (b < a); every comparison with not-a-time is false
PyMax(a, b) == IF isna(a) \/ isna(b) THEN a ELSE IF b > a THEN b ELSE a
PyMin(a, b) == IF isna(a) \/ isna(b) THEN a ELSE IF b < a THEN b ELSE a

\* pd.to_datetime of a cell: a missing value gives not-a-time
to_datetime(cell) == IF cell.kind = "missing" THEN NaT ELSE cell.t

\* lines 77-84: the zone handling of localize_to_paris, on a parsed cell
Normalized(cell) == localize_to_paris([t |-> cell.t, tz |-> cell.kind])

DiscardedStrict(start_clipped, end_clipped) ==
    isna(start_clipped) \/ isna(end_clipped) \/ start_clipped > end_clipped

\* line 87
Discarded(start_clipped, end_clipped) ==
    isna(start_clipped) \/ isna(end_clipped) \/ start_clipped >= end_clipped

\* int(row.get(name, 0)): a cell is "absent" (no such column), "int", or "bad"
\* (a value int() rejects)
IntRaises(cell) == cell.kind = "bad"
IntOf(cell) == IF cell.kind = "absent" THEN 0 ELSE cell.v

\* records.sort(key=start): stable insertion into a sorted list
RECURSIVE InsertByStart(_, _)
InsertByStart(sorted, rec) ==
    IF sorted = <<>> THEN <<rec>>
    ELSE IF rec[1] < Head(sorted)[1] THEN <<rec>> \o sorted
    ELSE <<Head(sorted)>> \o InsertByStart(Tail(sorted), rec)

RECURSIVE SortByStart(_, _)
SortByStart(records, acc) ==
    IF records = <<>> THEN acc
    ELSE SortByStart(Tail(records), InsertByStart(acc, Head(records)))

\* lines 72-91: the loop over the rows; an exception of int() ends the call
RECURSIVE BuildLoop(_, _, _, _, _)
BuildLoop(rows, i, records, ws, we) ==
    IF i > Len(rows) THEN [raised |-> FALSE, records |-> records]
    ELSE LET row == rows[i]
             start_ts == to_datetime(row.date_debut)
             end_ts == to_datetime(row.date_fin)
         IN  IF isna(start_ts) \/ isna(end_ts)
             THEN BuildLoop(rows, i + 1, records, ws, we)
             ELSE LET start_clipped == PyMax(Normalized(row.date_debut), ws)
                      end_clipped == PyMin(Normalized(row.date_fin), we)
                  IN  IF Discarded(start_clipped, end_clipped)
                      THEN BuildLoop(rows, i + 1, records, ws, we)
                      ELSE IF IntRaises(row.est_disponible) \/ IntRaises(row.is_excluded)
                      THEN [raised |-> TRUE, records |-> <<>>]
                      ELSE BuildLoop(rows, i + 1,
                                     Append(records,
                                            <<start_clipped, end_clipped,
                                              IntOf(row.est_disponible),
                                              IntOf(row.is_excluded)>>),
                                     ws, we)

\* lines 63-94: the timeline, or the exception
build_timeline(rows, ws, we) ==
    IF rows = <<>> THEN [raised |-> FALSE, timeline |-> <<>>]
    ELSE LET loop == BuildLoop(rows, 1, <<>>, ws, we)
         IN  IF loop.raised THEN [raised |-> TRUE, timeline |-> <<>>]
             ELSE [raised |-> FALSE, timeline |-> SortByStart(loop.records, <<>>)]

(* Direct calls of build_timeline: a few raw rows and a window *)

MaxRows == 2

Aware(t) == [kind |-> "aware", t |-> t]
Naive(t) == [kind |-> "naive", t |-> t]
MissingCell == [kind |-> "missing", t |-> NaT]
IntCell(v) == [kind |-> "int", v |-> v]
BadCell == [kind |-> "bad", v |-> 0]
AbsentCell == [kind |-> "absent", v |-> 0]

Row(d, f, a, x) == [date_debut |-> d, date_fin |-> f, est_disponible |-> a, is_excluded |-> x]

\* rows with sound cells, inside the window or cut by it
PlainRows ==
    { Row(Aware(s), Aware(e), IntCell((s + e) % 2), IntCell((s + e + 1) % 2)) :
        s \in 0..(MaxT - 1), e \in 1..MaxT }

\* rows with a missing, ambiguous or far timestamp, or a cell int() rejects
OddRows ==
    { Row(MissingCell, Aware(MaxT), IntCell(1), IntCell(0)),
      Row(Aware(0), MissingCell, BadCell, IntCell(0)),
      Row(Aware(0), Naive(HalfStep), IntCell(1), IntCell(0)),
      Row(Naive(HalfStep), Aware(HalfStep + 1), IntCell(1), IntCell(0)),
      Row(Naive(0), Aware(HalfStep), IntCell(1), IntCell(1)),
      Row(Naive(1), Naive(MaxT), AbsentCell, AbsentCell),
      Row(Aware(0), Aware(MaxT), BadCell, IntCell(0)),
      Row(Aware(1), Aware(MaxT), IntCell(1), BadCell),
      Row(Aware(MaxT), Aware(HalfStep), IntCell(0 - 1), IntCell(0)) }

RowLists == UNION { [1..n -> PlainRows \cup OddRows] : n \in 0..MaxRows }

InitBuild ==
    /\ EngineOff
    /\ \E rows \in RowLists, ws \in 0..(MaxT - 1), we \in 1..MaxT :
          /\ ws < we
          /\ probe = [fn |-> "build_timeline", rows |-> rows, ws |-> ws, we |-> we,
                      done |-> FALSE, out |-> [raised |-> FALSE, timeline |-> <<>>]]

BuildCall ==
    /\ probe.fn = "build_timeline"
    /\ ~probe.done
    /\ probe' = [probe EXCEPT !.done = TRUE,
                              !.out = build_timeline(probe.rows, probe.ws, probe.we)]
    /\ UNCHANGED engine

NextBuild == BuildCall

SpecBuild == InitBuild /\ [][NextBuild]_vars

(* Vocabulary of the build_timeline properties *)

Built == probe.fn = "build_timeline" /\ probe.done

ClipStart(t) == IF t > probe.ws THEN t ELSE probe.ws
ClipEnd(t) == IF t < probe.we THEN t ELSE probe.we

MissingTimestamp(row) ==
    row.date_debut.kind = "missing" \/ row.date_fin.kind = "missing"

\* a zone-less timestamp in the repeated hour of a clock change
AmbiguousCell(cell) == cell.kind = "naive" /\ cell.t \in AmbiguousWalls
AmbiguousTimestamp(row) == AmbiguousCell(row.date_debut) \/ AmbiguousCell(row.date_fin)

EmptyAfterClipping(row) == ClipStart(row.date_debut.t) >= ClipEnd(row.date_fin.t)

CellValue(cell) == IF cell.kind = "int" THEN cell.v ELSE 0

Clipped(row) ==
    <<ClipStart(row.date_debut.t), ClipEnd(row.date_fin.t),
      CellValue(row.est_disponible), CellValue(row.is_excluded)>>

Occurrences(seq, v) == Cardinality({i \in 1..Len(seq) : seq[i] = v})

\* the timeline holds, sorted by start, exactly the rows of Keep, clipped
HoldsExactly(tl, Keep) ==
    /\ \A i \in 1..Len(tl) :
          probe.ws <= tl[i][1] /\ tl[i][1] < tl[i][2] /\ tl[i][2] <= probe.we
    /\ \A i \in 1..(Len(tl) - 1) : tl[i][1] <= tl[i + 1][1]
    /\ Len(tl) = Cardinality(Keep)
    /\ \A i \in Keep :
          Occurrences(tl, Clipped(probe.rows[i]))
            = Cardinality({j \in Keep : Clipped(probe.rows[j]) = Clipped(probe.rows[i])})

(* C13 as stated: the returned timeline holds, sorted by non-decreasing     *)
(* start and clipped to the window, every record except those with a       *)
(* missing timestamp or with start >= end after clipping.                  *)
BuildKeepsAllButMissingOrEmpty ==
    (Built /\ ~probe.out.raised) =>
        HoldsExactly(probe.out.timeline,
                     {i \in 1..Len(probe.rows) :
                         /\ ~MissingTimestamp(probe.rows[i])
                         /\ ~EmptyAfterClipping(probe.rows[i])})

(* C13, amended: the same, the records left out being those with a missing *)
(* timestamp, with a zone-less timestamp that normalizes to not-a-time     *)
(* (repeated hour of a clock change), or with start >= end after clipping. *)
BuildKeepsAllButNaTOrEmpty ==
    (Built /\ ~probe.out.raised) =>
        HoldsExactly(probe.out.timeline,
                     {i \in 1..Len(probe.rows) :
                         /\ ~MissingTimestamp(probe.rows[i])
                         /\ ~AmbiguousTimestamp(probe.rows[i])
                         /\ ~EmptyAfterClipping(probe.rows[i])})

\* two rows given in descending order of start come back sorted, one of them
\* cut at the window end
BuildKeepsAllButNaTOrEmptyWitness ==
    /\ Built
    /\ ~probe.out.raised
    /\ Len(probe.rows) = 2
    /\ Len(probe.out.timeline) = 2
    /\ probe.out.timeline[1] = Clipped(probe.rows[2])
    /\ probe.out.timeline[1][1] < probe.out.timeline[2][1]
    /\ probe.rows[1].date_fin.t > probe.we
    /\ probe.out.timeline[2][2] = probe.we

\* a row with a missing timestamp is left out, the other row is kept
BuildDropsMissingWitness ==
    /\ Built
    /\ ~probe.out.raised
    /\ Len(probe.rows) = 2
    /\ MissingTimestamp(probe.rows[1])
    /\ Len(probe.out.timeline) = 1

(* C14: a record with valid timestamps whose est_disponible or is_excluded *)
(* cannot be read as an integer does not make build_timeline fail: it is   *)
(* kept with status 0 and excluded_flag 0, and the other records are       *)
(* processed as usual.                                                     *)
BuildToleratesBadStatus ==
    Built =>
        /\ ~probe.out.raised
        /\ HoldsExactly(probe.out.timeline,
                        {i \in 1..Len(probe.rows) :
                            /\ ~MissingTimestamp(probe.rows[i])
                            /\ ~AmbiguousTimestamp(probe.rows[i])
                            /\ ~EmptyAfterClipping(probe.rows[i])})

-----------------------------------------------------------------------------
(* One call over the 30-day month, everything constant: AC and both        *)
(* batteries available, no exclusion, PdcFloor charge points of which the  *)
(* first k are available and the others down                               *)

LongMonth(status) == << <<Horizon, Horizon + ThirtyDays, status, 0>> >>

ConstantPdc(k) == [i \in 1..PdcFloor |-> IF i <= k THEN LongMonth(1) ELSE LongMonth(0)]

InitMonth ==
    /\ equipment_timelines = [name \in Roles |-> LongMonth(1)]
    /\ pdc_timelines \in {ConstantPdc(k) : k \in 0..PdcFloor}
    /\ exclusion_intervals = <<>>
    /\ pc = "idle"
    /\ start = NaT
    /\ end = NaT
    /\ cursor = NaT
    /\ aggregates = <<>>
    /\ branch = "none"
    /\ warnings = <<>>
    /\ result = <<>>
    /\ prev = NoPrev
    /\ probe = NoProbe

\* calculate_monthly over exactly the 30-day month
CallMonth ==
    /\ pc = "idle"
    /\ \E zs \in Zones, ze \in Zones :
          Enter([t |-> Horizon, tz |-> zs], [t |-> Horizon + ThirtyDays, tz |-> ze])
    /\ UNCHANGED prev

NextMonth == CallMonth \/ LoopStep \/ Finalize

SpecMonth == InitMonth /\ [][NextMonth]_vars

(* C15: over one 30-day month with everything constant and k of 6 charge   *)
(* points available, the single row has steps_total = 4320 and             *)
(* steps_excluded = 0; with k = 3 ratio_sum = 0 and availability_pct =     *)
(* 0.00; with k = 4 ratio_sum = 4320 * 4/6 = 2880 and availability_pct =   *)
(* 66.67.                                                                  *)
UpPoints == Cardinality({i \in 1..Len(pdc_timelines) : pdc_timelines[i][1][3] = 1})

ConstantMonth ==
    (pc = "done" /\ Len(pdc_timelines) = PdcFloor /\ end - start = ThirtyDays) =>
        /\ Len(result) = 1
        /\ result[1].T2 = 4320
        /\ result[1].T3 = 0
        /\ UpPoints = 3 =>
              /\ aggregates[result[1].Mois].T_sum = 0
              /\ result[1].T = 0
              /\ result[1].Dispo = 0
        /\ UpPoints = 4 =>
              /\ aggregates[result[1].Mois].T_sum = 2880 * RatioUnit
              /\ result[1].T = 288000
              /\ result[1].Dispo = 6667

\* the month has been computed with two charge points down
ConstantMonthWitness ==
    /\ pc = "done"
    /\ end - start = ThirtyDays
    /\ UpPoints = 4
    /\ Len(result) = 1
    /\ result[1].Dispo = 6667

\* the month has been computed with three charge points down
ConstantMonthBlockedWitness ==
    /\ pc = "done"
    /\ end - start = ThirtyDays
    /\ UpPoints = 3
    /\ Len(result) = 1
    /\ result[1].T2 = 4320
    /\ branch = "pdc"

-----------------------------------------------------------------------------
\* number of the first n steps that start in month m and lie inside one
\* exclusion range
ExcludedStepsOf(n, m) ==
    Cardinality({k \in 0..(n - 1) : /\ MonthKey(start + k * StepDuration) = m
                                    /\ InOneExclusion(start + k * StepDuration)})

HasWarning(kind) == \E i \in 1..Len(warnings) : warnings[i].kind = kind

ValidCall == pc # "idle" /\ start # NaT /\ end # NaT /\ start < end

(* C16: with no charge-point timeline and a valid period the call warns    *)
(* about the absence of charge points, is not rejected, and returns a row  *)
(* for every month containing a step start, whose steps_total and          *)
(* steps_excluded count the steps and the excluded steps of that month and *)
(* whose ratio_sum is 0 (6 - 0 >= 3 with the floor of 6).                  *)
NoChargePoints ==
    (ValidCall /\ pdc_timelines = <<>>) =>
        /\ HasWarning("no_pdc")
        /\ ~HasWarning("invalid")
        /\ branch # "counted"
        /\ pc = "done" =>
              LET n == (end - start) \div StepDuration
              IN  /\ \A k \in 0..(n - 1) :
                        \E i \in 1..Len(result) :
                            result[i].Mois = MonthKey(start + k * StepDuration)
                  /\ \A i \in 1..Len(result) :
                        /\ result[i].T2 = StepsOf(n, result[i].Mois)
                        /\ result[i].T3 = ExcludedStepsOf(n, result[i].Mois)
                        /\ result[i].T = 0

\* a table of several months returned without charge points, one month with
\* excluded steps and one with a step that reached the charge-point gate
NoChargePointsWitness ==
    /\ pc = "done"
    /\ ValidCall
    /\ pdc_timelines = <<>>
    /\ HasWarning("no_pdc")
    /\ Len(result) >= 2
    /\ \E i \in 1..Len(result) : result[i].T3 > 0
    /\ \E i \in 1..Len(result) : result[i].T3 < result[i].T2
    /\ branch = "pdc"

(* C17: with fewer than 4 charge-point timelines, total - available >= 3   *)
(* at every checkpoint of every step, no step is counted, ratio_sum is 0   *)
(* for every month and availability_pct is steps_excluded / steps_total *  *)
(* 100 (to the rounding of two decimals).                                  *)
FewPointsAlwaysBlocked ==
    (ValidCall /\ Len(pdc_timelines) < BlockThreshold + 1) =>
        /\ Stepping =>
              \A c \in Checkpoints :
                  ContractTotal - AvailableAt(cursor, c) >= BlockThreshold
        /\ branch # "counted"
        /\ \A m \in DOMAIN aggregates : aggregates[m].T_sum = 0
        /\ \A i \in 1..Len(result) :
              /\ result[i].T = 0
              /\ 2 * (result[i].Dispo * result[i].T2 - result[i].T3 * 10000) <= result[i].T2
              /\ 2 * (result[i].T3 * 10000 - result[i].Dispo * result[i].T2) <= result[i].T2

\* three charge points, all of them available during the last step, which
\* the charge-point gate skipped; a month with some steps excluded
FewPointsAlwaysBlockedWitness ==
    /\ pc = "done"
    /\ ValidCall
    /\ Len(pdc_timelines) = BlockThreshold
    /\ branch = "pdc"
    /\ \E s \in {end - StepDuration, end - StepDuration - HalfStep} :
          /\ s >= start
          /\ \A c \in Checkpoints : AvailableAt(s, c) = BlockThreshold
    /\ \E i \in 1..Len(result) : result[i].T3 > 0 /\ result[i].T3 < result[i].T2

-----------------------------------------------------------------------------
\* the timelines with every excluded_flag set to 0
EraseFlags(tl) == [i \in 1..Len(tl) |-> <<tl[i][1], tl[i][2], tl[i][3], 0>>]

EraseAll(tls) == [k \in DOMAIN tls |-> EraseFlags(tls[k])]

\* some interval status read at a checkpoint of the step starting at s
\* carries an excluded_flag
FlagRead(s) ==
    \E c \in Checkpoints :
        \/ \E name \in DOMAIN equipment_timelines : Status(name, s, c).is_excluded
        \/ \E k \in 1..Len(pdc_timelines) :
              status_at(pdc_timelines[k],
                        s + c * UnitsPerMinute + CheckpointOffset).is_excluded

(* C18: the excluded_flag of the intervals never influences the call: the  *)
(* warnings, every step's effect on the accumulators and the returned rows *)
(* are those obtained from the same timelines with every flag erased (so   *)
(* two runs that differ only in flags go through the same accumulators,    *)
(* rows and warnings), and a step is counted as excluded only when one     *)
(* range of the exclusion set contains it.                                 *)
FlagsIgnored ==
    [][/\ (pc = "idle" /\ pc' = "loop") =>
             warnings' = InitialWarnings(EraseAll(equipment_timelines),
                                         EraseAll(pdc_timelines))
       /\ Stepping =>
             /\ LET out == StepOutcome(EraseAll(equipment_timelines),
                                       EraseAll(pdc_timelines),
                                       exclusion_intervals, aggregates, cursor)
                IN  aggregates' = out.aggregates /\ branch' = out.branch
             /\ branch' = "excluded" => InOneExclusion(cursor)
       /\ (pc = "loop" /\ pc' = "done") =>
             result' = BuildRows(aggregates, Den(EraseAll(pdc_timelines)))]_vars

\* a step has been counted, outside every exclusion range, although the AC
\* status and a charge-point status read at its checkpoints were flagged
FlagsIgnoredWitness ==
    /\ Stepped
    /\ branch = "counted"
    /\ ~InOneExclusion(LastStep)
    /\ \E c \in Checkpoints : Status("AC", LastStep, c).is_excluded
    /\ FlagRead(LastStep)

====
